---- MODULE Spec2Model ----
(***************************************************************************)
(* Model of tetris.py: the Block / BlocksGroup rules engine and the event  *)
(* dispatch of main().  A block is a record (kind, struct, x, y, current); *)
(* the sprite group is the sequence `blocks` in insertion order, so that   *)
(* sprites()[-1] is blocks[Len(blocks)].  Every event handler is one       *)
(* action.  An uncaught Python exception ends the program (status          *)
(* "crashed"), a while loop that can make no progress hangs it ("hung").   *)
(***************************************************************************)
EXTENDS Integers, Sequences, FiniteSets, TLC

VARIABLES
    blocks,            \* BlocksGroup.sprites(), in insertion order
    next_block,        \* BlocksGroup.next_block (the preview)
    score,             \* BlocksGroup.score
    level,             \* BlocksGroup.level
    lines_completed,   \* BlocksGroup.lines_completed
    speed,             \* BlocksGroup.speed
    heading,           \* BlocksGroup._current_block_movement_heading
    ignore_next_stop,  \* BlocksGroup._ignore_next_stop
    game_over,         \* main(): game_over
    paused,            \* main(): paused
    status,            \* "running" | "crashed" | "hung"
    draws_left,        \* blocks the random source still yields (model bound)
    rows_cleared,      \* history: rows cleared since the session began
    pause_pressed      \* history: K_p was released an odd number of times

vars == <<blocks, next_block, score, level, lines_completed, speed, heading,
          ignore_next_stop, game_over, paused, status, draws_left, rows_cleared,
          pause_pressed>>

----------------------------------------------------------------------------
(* Program constants *)

GRID_WIDTH == 300
GRID_HEIGHT == 600
TILE_SIZE == 30
LINES_PER_LEVEL == 10
LEVEL_SPEEDS == <<800, 600, 450, 300, 200>>
GridCols == 10
GridRows == 20
SpawnX == 4
SpawnY == 0
LineScore == 5

K_LEFT == "K_LEFT"
K_RIGHT == "K_RIGHT"
K_DOWN == "K_DOWN"
K_UP == "K_UP"
K_p == "K_p"
NoHeading == "None"
MOVEMENT_KEYS == {K_LEFT, K_RIGHT, K_DOWN}

----------------------------------------------------------------------------
(* Shape table and numpy helpers *)

Kinds == {"SquareBlock", "TBlock", "LineBlock", "LBlock", "ZBlock",
          "ReverseLBlock", "ReverseZBlock"}

BaseStruct(kind) ==
    CASE kind = "SquareBlock"   -> << <<1, 1>>, <<1, 1>> >>
      [] kind = "TBlock"        -> << <<1, 1, 1>>, <<0, 1, 0>> >>
      [] kind = "LineBlock"     -> << <<1>>, <<1>>, <<1>>, <<1>> >>
      [] kind = "LBlock"        -> << <<1, 1>>, <<1, 0>>, <<1, 0>> >>
      [] kind = "ZBlock"        -> << <<0, 1>>, <<1, 1>>, <<1, 0>> >>
      [] kind = "ReverseLBlock" -> << <<1, 1>>, <<0, 1>>, <<0, 1>> >>
      [] kind = "ReverseZBlock" -> << <<1, 0>>, <<1, 1>>, <<0, 1>> >>

NRows(m) == Len(m)
NCols(m) == IF Len(m) = 0 THEN 0 ELSE Len(m[1])

\* np.rot90: counterclockwise, new[i][j] = m[j][ncols - 1 - i] (0-based)
rot90(m) ==
    [i \in 1..NCols(m) |-> [j \in 1..NRows(m) |-> m[j][NCols(m) + 1 - i]]]

\* np.flip(m, 0): reverse the order of the rows
flip0(m) == [i \in 1..NRows(m) |-> m[NRows(m) + 1 - i]]

\* np.delete(m, r, 0) with r a 0-based row index
DeleteRow(m, r) ==
    [i \in 1..(NRows(m) - 1) |-> IF i <= r THEN m[i] ELSE m[i + 1]]

\* np.delete(m, c, 1) with c a 0-based column index
DeleteCol(m, c) ==
    [i \in 1..NRows(m) |->
        [j \in 1..(NCols(m) - 1) |-> IF j <= c THEN m[i][j] ELSE m[i][j + 1]]]

\* ndarray.any()
StructAny(m) == \E i \in 1..NRows(m) : \E j \in 1..NCols(m) : m[i][j] = 1

\* col.max() == 0 for the 0-based column c
ColEmpty(m, c) == \A i \in 1..NRows(m) : m[i][c + 1] = 0

\* Block.__init__: optional rot90, then optional flip
SpawnStructs(kind) ==
    LET b == BaseStruct(kind)
    IN  {b, rot90(b), flip0(b), flip0(rot90(b))}

\* Block.__init__ + _draw(): a fresh block at the spawn anchor
NewBlock(kind, struct) ==
    [kind |-> kind, struct |-> struct, x |-> SpawnX, y |-> SpawnY, current |-> TRUE]

\* BlocksGroup.get_random_block: every block the random source can yield
AllNewBlocks ==
    UNION {{NewBlock(k, s) : s \in SpawnStructs(k)} : k \in Kinds}

----------------------------------------------------------------------------
(* del_empty_columns *)

RECURSIVE DelEmptyColumnsFrom(_, _, _, _)
\* the for loop at column colid of a call with (_x_offset, _keep_counting)
DelEmptyColumnsFrom(arr, colid, x_offset, keep_counting) ==
    IF colid >= NCols(arr)
    THEN [arr |-> arr, x_offset |-> x_offset]
    ELSE IF ColEmpty(arr, colid)
         THEN DelEmptyColumnsFrom(DeleteCol(arr, colid), 0,
                  IF keep_counting THEN x_offset + 1 ELSE x_offset,
                  keep_counting)
         ELSE DelEmptyColumnsFrom(arr, colid + 1, x_offset, FALSE)

\* del_empty_columns with every removed column counted into x_offset
DelEmptyColumnsCountAll(arr) ==
    LET r == DelEmptyColumnsFrom(arr, 0, 0, TRUE)
    IN  [arr |-> r.arr, x_offset |-> NCols(arr) - NCols(r.arr)]

del_empty_columns(arr) == DelEmptyColumnsFrom(arr, 0, 0, TRUE)

----------------------------------------------------------------------------
(* Block: geometry, collision, bounds, move, rotate *)

\* the tiles _draw() paints (and so the mask bits), as board cells <<col, row>>
CellsAt(struct, x, y) ==
    {<<x + j - 1, y + i - 1>> : <<i, j>> \in
        {p \in (1..NRows(struct)) \X (1..NCols(struct)) : struct[p[1]][p[2]] = 1}}

Cells(b) == CellsAt(b.struct, b.x, b.y)

\* pygame.sprite.collide_mask: the masks are compared where the two rects
\* intersect; an overlap is a tile of a on a tile of b
RectsIntersect(a, b) ==
    /\ a.x < b.x + NCols(b.struct) /\ b.x < a.x + NCols(a.struct)
    /\ a.y < b.y + NRows(b.struct) /\ b.y < a.y + NRows(a.struct)

collide_mask(a, b) ==
    RectsIntersect(a, b) /\ Cells(a) \cap Cells(b) # {}

\* Block.collide for a candidate b that is entry `self` of the group
\* (self = 0 when b is not in the group)
collide(b, group, self) ==
    \E k \in 1..Len(group) : k # self /\ collide_mask(b, group[k])

RectRight(b) == (b.x + NCols(b.struct)) * TILE_SIZE
RectLeft(b) == b.x * TILE_SIZE
RectBottom(b) == (b.y + NRows(b.struct)) * TILE_SIZE

\* _is_out_of_bounds with the floor one row higher
IsOutOfBoundsEarly(b) ==
    \/ RectRight(b) > GRID_WIDTH
    \/ RectLeft(b) < 0
    \/ RectBottom(b) >= GRID_HEIGHT

_is_out_of_bounds(b) ==
    \/ RectRight(b) > GRID_WIDTH
    \/ RectLeft(b) < 0
    \/ RectBottom(b) > GRID_HEIGHT

\* Block.move without lines 160-161: a blocked block keeps the new anchor
MoveNoRestore(group, i, dx, dy) ==
    LET b     == group[i]
        moved == [b EXCEPT !.x = b.x + dx, !.y = b.y + dy]
    IN  IF collide(moved, group, i) \/ _is_out_of_bounds(moved)
        THEN IF dy > 0
             THEN [group |-> [group EXCEPT ![i] = [moved EXCEPT !.current = FALSE]],
                   bottom |-> TRUE]
             ELSE [group |-> [group EXCEPT ![i] = moved], bottom |-> FALSE]
        ELSE [group |-> [group EXCEPT ![i] = moved], bottom |-> FALSE]

\* Block.move on group[i]; bottom = BottomReached was raised
move(group, i, dx, dy) ==
    LET b     == group[i]
        moved == [b EXCEPT !.x = b.x + dx, !.y = b.y + dy]
    IN  IF collide(moved, group, i) \/ _is_out_of_bounds(moved)
        THEN IF dy > 0
             THEN [group |-> [group EXCEPT ![i].current = FALSE], bottom |-> TRUE]
             ELSE [group |-> group, bottom |-> FALSE]
        ELSE [group |-> [group EXCEPT ![i] = moved], bottom |-> FALSE]

\* Block.rotate without its placement loop
RotateUnresolved(b, group, i) == [block |-> b, hang |-> FALSE]

RECURSIVE RotateLoop(_, _, _)
\* the while loop of Block.rotate; b carries the rotated image
RotateLoop(b, group, i) ==
    IF ~(_is_out_of_bounds(b) \/ collide(b, group, i))
    THEN [block |-> b, hang |-> FALSE]
    ELSE IF RectRight(b) > GRID_WIDTH
         THEN RotateLoop([b EXCEPT !.x = b.x - 1], group, i)
         ELSE IF RectLeft(b) < 0
              THEN RotateLoop([b EXCEPT !.x = b.x + 1], group, i)
              ELSE IF RectBottom(b) > GRID_HEIGHT
                   THEN RotateLoop([b EXCEPT !.y = b.y - 1], group, i)
                   ELSE [block |-> b, hang |-> TRUE]

\* the outcome of Block.rotate once its loop has ended with r
RotateResult(group, i, r) ==
    [group |-> IF r.hang THEN group ELSE [group EXCEPT ![i] = r.block],
     hang |-> r.hang]

\* Block.rotate on group[i]
rotate(group, i) ==
    RotateResult(group, i,
        RotateLoop([group[i] EXCEPT !.struct = rot90(group[i].struct)], group, i))

----------------------------------------------------------------------------
(* BlocksGroup: grid, line clearance, spawn *)

Max(S) == CHOOSE v \in S : \A w \in S : w <= v

\* Python list indexing: a negative index counts from the end
PyIndex(i, n) == IF i < 0 THEN i + n ELSE i

\* update_grid raises IndexError when a tile lies outside the list bounds
GridIndexError(group) ==
    \E k \in 1..Len(group) : \E c \in Cells(group[k]) :
        \/ c[1] >= GridCols \/ c[1] < -GridCols
        \/ c[2] >= GridRows \/ c[2] < -GridRows

\* the value of an empty grid cell (0 in _reset_grid)
NoEntry == <<0, 0>>

\* the grid cell a tile <<col, row>> is written to by update_grid
GridSlot(t) == <<PyIndex(t[1], GridCols), PyIndex(t[2], GridRows)>>

\* update_grid: the entry of grid[r][c], NoEntry or <<block index, y_offset>>;
\* a later block of the group overwrites an earlier one
GridEntry(group, r, c) ==
    LET owners == {k \in 1..Len(group) :
                     \E t \in Cells(group[k]) : GridSlot(t) = <<c, r>>}
    IN  IF owners = {} THEN NoEntry
        ELSE LET k == Max(owners)
                 offs == {t[2] - group[k].y : t \in
                            {u \in Cells(group[k]) : GridSlot(u) = <<c, r>>}}
             IN  <<k, Max(offs)>>

\* the grid cells that hold an entry
Occupied(group) ==
    UNION {{GridSlot(t) : t \in Cells(group[k])} : k \in 1..Len(group)}

\* the rows r with all(row)
CompleteRows(group) ==
    LET occ == Occupied(group)
    IN  {r \in 0..(GridRows - 1) : \A c \in 0..(GridCols - 1) : <<c, r>> \in occ}

\* lines 339-351 without the removal of an emptied block
StripRowKeepEmpty(b, y_offset) ==
    LET d == del_empty_columns(DeleteRow(b.struct, y_offset))
    IN  [b EXCEPT !.struct = d.arr, !.x = b.x + d.x_offset]

\* lines 339-351 for one affected block: the row removed, columns compacted
StripRow(b, y_offset) ==
    LET cut == DeleteRow(b.struct, y_offset)
    IN  IF StructAny(cut)
        THEN LET d == del_empty_columns(cut)
             IN  [b EXCEPT !.struct = d.arr, !.x = b.x + d.x_offset]
        ELSE [b EXCEPT !.struct = cut, !.kind = "removed"]

\* lines 334-351: every block owning a cell of row r loses that local row
StripBlocks(group, r) ==
    LET affected == {GridEntry(group, r, c) : c \in 0..(GridCols - 1)}
        stripped == [k \in 1..Len(group) |->
                       IF \E a \in affected : a[1] = k
                       THEN StripRow(group[k],
                                (CHOOSE a \in affected : a[1] = k)[2])
                       ELSE group[k]]
    IN  SelectSeq(stripped, LAMBDA b : b.kind # "removed")

RECURSIVE PullDown(_, _), PullDownNext(_, _)
\* lines 370-374: move group[k] down until BottomReached
PullDown(group, k) == PullDownNext(move(group, k, 0, 1), k)
PullDownNext(m, k) == IF m.bottom THEN m.group ELSE PullDown(m.group, k)

RECURSIVE GravityPassFrom(_, _)
\* lines 364-374: the blocks in group order, the current block skipped
GravityPassFrom(group, k) ==
    IF k > Len(group) THEN group
    ELSE IF group[k].current
         THEN GravityPassFrom(group, k + 1)
         ELSE GravityPassFrom(PullDown(group, k), k + 1)

GravityPass(group) == GravityPassFrom(group, 1)

\* update_grid; it raises IndexError for a tile outside the lists
update_grid(s) ==
    [s EXCEPT !.exc = IF GridIndexError(s.blocks) THEN "IndexError" ELSE s.exc]

\* lines 328-330 with the score of a row doubled
ScoreLineDouble(s) ==
    [s EXCEPT !.score = s.score + 2 * LineScore,
              !.lines_completed = s.lines_completed + 1]

\* lines 328-330: the score and counter update of one cleared row
ScoreLine(s) ==
    [s EXCEPT !.score = s.score + LineScore,
              !.lines_completed = s.lines_completed + 1]

\* lines 334-351 on the session; the history count of cleared rows advances
StripLine(s, r) ==
    [s EXCEPT !.blocks = StripBlocks(s.blocks, r), !.cleared = s.cleared + 1]

\* lines 353-358 with the level-up one cleared row late
LevelCheckLate(s) ==
    IF s.lines_completed > LINES_PER_LEVEL
    THEN [s EXCEPT !.lines_completed = 0, !.level = s.level + 1]
    ELSE s

\* lines 353-358: level-up; LEVEL_SPEEDS[level - 1] may raise IndexError
LevelCheck(s) ==
    IF s.lines_completed >= LINES_PER_LEVEL
    THEN IF s.level + 1 > Len(LEVEL_SPEEDS)
         THEN [s EXCEPT !.lines_completed = 0, !.level = s.level + 1,
                        !.exc = "IndexError"]
         ELSE [s EXCEPT !.lines_completed = 0, !.level = s.level + 1,
                        !.speed = LEVEL_SPEEDS[s.level + 1]]
    ELSE s

\* lines 364-376: the gravity pass and update_grid, unless line 357 raised
SettleAfterClear(s) ==
    IF s.exc # "none" THEN s
    ELSE update_grid([s EXCEPT !.blocks = GravityPass(s.blocks)])

\* lines 327-376: one completed row r is cleared
ClearRow(s, r) ==
    SettleAfterClear(LevelCheck(StripLine(ScoreLine(s), r)))

RECURSIVE _check_line_completion(_), ClearLowest(_, _)
\* scan from the bottom; clear the first complete row and call again
_check_line_completion(s) ==
    IF s.exc # "none" THEN s ELSE ClearLowest(s, CompleteRows(s.blocks))
ClearLowest(s, rows) ==
    IF rows = {} THEN s ELSE _check_line_completion(ClearRow(s, Max(rows)))

\* stop_moving_current_block
stop_moving_current_block(s) ==
    IF s.ignore_next_stop
    THEN [s EXCEPT !.ignore_next_stop = FALSE]
    ELSE [s EXCEPT !.heading = NoHeading]

\* start_moving_current_block
start_moving_current_block(s, key) ==
    [s EXCEPT !.ignore_next_stop =
                  IF s.heading # NoHeading THEN TRUE ELSE s.ignore_next_stop,
              !.heading = key]

\* lines 397-398: the preview joins the group, `drawn` is the new preview
AddBlock(s, drawn) ==
    [s EXCEPT !.blocks = Append(s.blocks, s.next_block),
              !.next_block = drawn,
              !.used = s.used + 1]

\* line 401: speed = LEVEL_SPEEDS[level - 1]
SetSpeed(s) ==
    IF s.exc # "none" THEN s
    ELSE IF s.level > Len(LEVEL_SPEEDS)
         THEN [s EXCEPT !.exc = "IndexError"]
         ELSE [s EXCEPT !.speed = LEVEL_SPEEDS[s.level]]

\* _create_new_block without the collision test of lines 395-396
CreateNewBlockUnchecked(s, drawn) ==
    SetSpeed(_check_line_completion(update_grid(AddBlock(s, drawn))))

\* _create_new_block; `drawn` is what get_random_block returns for the preview
_create_new_block(s, drawn) ==
    IF collide(s.next_block, s.blocks, 0)
    THEN [s EXCEPT !.exc = "TopReached"]
    ELSE SetSpeed(_check_line_completion(update_grid(AddBlock(s, drawn))))

\* the tail shared by update_current_block and move_current_block:
\* on BottomReached stop moving and spawn, else update_grid
AfterMove(s, m, drawn) ==
    IF m.bottom
    THEN _create_new_block(
             stop_moving_current_block([s EXCEPT !.blocks = m.group]), drawn)
    ELSE update_grid([s EXCEPT !.blocks = m.group])

\* update_current_block; current_block is sprites()[-1]
update_current_block(s, drawn) ==
    IF s.exc # "none" THEN s
    ELSE IF Len(s.blocks) = 0 THEN [s EXCEPT !.exc = "IndexError"]
    ELSE AfterMove(s, move(s.blocks, Len(s.blocks), 0, 1), drawn)

\* the action table of move_current_block as a step (dx, dy)
HeadingDx(h) == IF h = K_LEFT THEN -1 ELSE IF h = K_RIGHT THEN 1 ELSE 0
HeadingDy(h) == IF h = K_DOWN THEN 1 ELSE 0

\* move_current_block
move_current_block(s, drawn) ==
    IF s.heading = NoHeading THEN s
    ELSE IF Len(s.blocks) = 0 THEN [s EXCEPT !.exc = "IndexError"]
    ELSE AfterMove(s, move(s.blocks, Len(s.blocks),
                           HeadingDx(s.heading), HeadingDy(s.heading)), drawn)

\* lines 471-472 once Block.rotate has ended with r
AfterRotate(s, r) ==
    IF r.hang THEN [s EXCEPT !.exc = "hang"]
    ELSE update_grid([s EXCEPT !.blocks = r.group])

\* rotate_current_block
rotate_current_block(s) ==
    IF Len(s.blocks) = 0 THEN [s EXCEPT !.exc = "IndexError"]
    ELSE IF s.blocks[Len(s.blocks)].kind = "SquareBlock" THEN s
    ELSE AfterRotate(s, rotate(s.blocks, Len(s.blocks)))

----------------------------------------------------------------------------
(* main(): the session as one record, and the event handlers *)

\* the BlocksGroup attributes the handlers read and write; exc is the
\* exception in flight, used the number of get_random_block calls made,
\* cleared the history count of cleared rows
Session ==
    [blocks |-> blocks, next_block |-> next_block, score |-> score,
     level |-> level, lines_completed |-> lines_completed, speed |-> speed,
     heading |-> heading, ignore_next_stop |-> ignore_next_stop,
     exc |-> "none", used |-> 0, cleared |-> rows_cleared]

\* the attributes after a handler has run
Store(s) ==
    /\ s.used <= draws_left
    /\ blocks' = s.blocks
    /\ next_block' = s.next_block
    /\ score' = s.score
    /\ level' = s.level
    /\ lines_completed' = s.lines_completed
    /\ speed' = s.speed
    /\ heading' = s.heading
    /\ ignore_next_stop' = s.ignore_next_stop
    /\ draws_left' = draws_left - s.used
    /\ rows_cleared' = s.cleared
    /\ pause_pressed' = pause_pressed

\* handle_event's try/except around handle_block_events: TopReached sets
\* game_over, any other exception leaves main()
Caught(s) ==
    /\ game_over' = (game_over \/ s.exc = "TopReached")
    /\ status' = IF s.exc \in {"none", "TopReached"} THEN status ELSE "crashed"
    /\ paused' = paused

\* a call outside the try: every exception leaves main()
Uncaught(s) ==
    /\ game_over' = game_over
    /\ status' = IF s.exc = "none" THEN status
                 ELSE IF s.exc = "hang" THEN "hung" ELSE "crashed"
    /\ paused' = paused

\* the number of blocks the random source yields after the initial state
MaxDraws == 1

\* the blocks get_random_block yields in this model
Draws ==
    {NewBlock("SquareBlock", BaseStruct("SquareBlock")),
     NewBlock("LineBlock", BaseStruct("LineBlock"))}

\* get_random_block is called only by a spawn that is not blocked: the
\* outcomes to consider for a handler that moves the current block by (0, dy)
\* or sideways
DrawsIfSpawn(s, dx, dy) ==
    IF /\ s.exc = "none"
       /\ Len(s.blocks) > 0
       /\ move(s.blocks, Len(s.blocks), dx, dy).bottom
       /\ ~collide(s.next_block, s.blocks, 0)
    THEN Draws
    ELSE {s.next_block}

\* a handler run inside / outside the try of handle_event
Handled(s) == Store(s) /\ Caught(s)
Unhandled(s) == Store(s) /\ Uncaught(s)

\* line 585: the second update_current_block of a gravity tick, unless the
\* first one (line 557) raised
GravitySecond(s1) ==
    IF s1.exc # "none"
    THEN Unhandled(s1)
    ELSE \E d2 \in DrawsIfSpawn(s1, 0, 1) : Handled(update_current_block(s1, d2))

\* USEREVENT + 1: handle_event calls update_current_block itself (line 557)
\* and then again through handle_block_events (line 585)
GravityTick ==
    /\ status = "running"
    /\ draws_left > 0
    /\ \E d1 \in DrawsIfSpawn(Session, 0, 1) :
          GravitySecond(update_current_block(Session, d1))

\* USEREVENT + 2: move_current_block through handle_block_events
RepeatTick ==
    /\ status = "running"
    /\ draws_left > 0
    /\ heading # NoHeading
    /\ \E d \in DrawsIfSpawn(Session, HeadingDx(heading), HeadingDy(heading)) :
          Handled(move_current_block(Session, d))

\* KEYDOWN of a movement key
KeyDown(key) ==
    /\ status = "running"
    /\ draws_left > 0
    /\ ~(game_over \/ paused)
    /\ key \in MOVEMENT_KEYS
    /\ Handled(start_moving_current_block(Session, key))

\* KEYUP of a movement key
KeyUpMove ==
    /\ status = "running"
    /\ draws_left > 0
    /\ ~paused /\ ~game_over
    /\ Handled(stop_moving_current_block(Session))

\* KEYUP of K_UP: rotate_current_block, outside the try
KeyUpRotate ==
    /\ status = "running"
    /\ draws_left > 0
    /\ ~paused /\ ~game_over
    /\ Unhandled(rotate_current_block(Session))

\* KEYUP of K_p: line 575 assigns the parameter `paused` of
\* handle_keyup_event, a local of that function; handle_event returns its
\* own `paused` (line 564), so main() keeps the value it had
KeyUpPause ==
    /\ status = "running"
    /\ draws_left > 0
    /\ paused' = paused
    /\ pause_pressed' = ~pause_pressed
    /\ UNCHANGED <<blocks, next_block, score, level, lines_completed, speed,
                   heading, ignore_next_stop, game_over, status, draws_left,
                   rows_cleared>>

Next ==
    \/ GravityTick
    \/ RepeatTick
    \/ \E key \in MOVEMENT_KEYS : KeyDown(key)
    \/ KeyUpMove
    \/ KeyUpRotate
    \/ KeyUpPause

\* the values main() and BlocksGroup.__init__ give what is not the board
InitControls ==
    /\ heading = NoHeading
    /\ ignore_next_stop = FALSE
    /\ game_over = FALSE
    /\ paused = FALSE
    /\ pause_pressed = FALSE
    /\ status = "running"
    /\ draws_left = MaxDraws

\* BlocksGroup.__init__ and main() before the loop: the first block on the
\* empty board, the preview drawn, no row completed yet
InitProgram ==
    /\ \E b \in AllNewBlocks : blocks = <<b>>
    /\ next_block \in Draws
    /\ score = 0
    /\ level = 1
    /\ lines_completed = 0
    /\ speed = LEVEL_SPEEDS[1]
    /\ rows_cleared = 0
    /\ InitControls

SpecDrop == InitProgram /\ [][Next]_vars

----------------------------------------------------------------------------
(* Boards of a session in progress *)

VLine == BaseStruct("LineBlock")
HLine == rot90(BaseStruct("LineBlock"))
Square == BaseStruct("SquareBlock")

Settled(kind, struct, x, y) ==
    [kind |-> kind, struct |-> struct, x |-> x, y |-> y, current |-> FALSE]
Falling(kind, struct, x, y) ==
    [kind |-> kind, struct |-> struct, x |-> x, y |-> y, current |-> TRUE]

\* Tower: a bar on the floor at columns 0-3, four upright bars stacked in
\* column 4, one upright bar in column 5, and an L dropped from the spawn
\* anchor that came to rest on the tower at y = 1.  The eighth block, a flat
\* bar, has just spawned.  No row has been completed (32 tiles, 8 blocks).
BoardTower ==
    << Settled("LineBlock", HLine, 0, 19),
       Settled("LineBlock", VLine, 4, 16),
       Settled("LineBlock", VLine, 4, 12),
       Settled("LineBlock", VLine, 4, 8),
       Settled("LineBlock", VLine, 4, 4),
       Settled("LineBlock", VLine, 5, 16),
       Settled("LBlock", BaseStruct("LBlock"), 4, 1),
       Falling("LineBlock", HLine, 4, 0) >>

\* the blocks that fill rows 18 and 19 right of column 2, the last one (an
\* upright bar above column 9) still falling
TwoRowsRest ==
    << Settled("LineBlock", HLine, 3, 19),
       Settled("LineBlock", HLine, 3, 18),
       Settled("LineBlock", VLine, 7, 16),
       Settled("LineBlock", VLine, 8, 16),
       Falling("LineBlock", VLine, 9, 13) >>

\* TwoRowsTucked: an L standing in column 0 whose arm overhangs column 1, and
\* a square that was slid under the arm afterwards (the L is the older block).
\* TwoRowsStacked: the same tiles, the square placed first and the L dropped
\* beside it.  No row has been completed (28 tiles, 7 blocks).
BoardTwoRowsTucked ==
    << Settled("LBlock", BaseStruct("LBlock"), 0, 17),
       Settled("SquareBlock", Square, 1, 18) >> \o TwoRowsRest
BoardTwoRowsStacked ==
    << Settled("SquareBlock", Square, 1, 18),
       Settled("LBlock", BaseStruct("LBlock"), 0, 17) >> \o TwoRowsRest

\* Remnants: two upright bars in columns 8 and 9 that lost their bottom tile
\* when row 19 was completed and cleared together with two flat bars; since
\* then a flat bar has landed at columns 0-3 and another is falling above
\* columns 4-7.  One row has been completed (14 tiles, 6 blocks spawned).
BoardRemnants ==
    << Settled("LineBlock", <<<<1>>, <<1>>, <<1>>>>, 8, 17),
       Settled("LineBlock", <<<<1>>, <<1>>, <<1>>>>, 9, 17),
       Settled("LineBlock", HLine, 0, 19),
       Falling("LineBlock", HLine, 4, 16) >>

\* an L standing on its foot
LFoot == flip0(BaseStruct("LBlock"))

\* column 0 filled from row 1 down (an L on its foot under four upright
\* bars) and column 9 filled from row 0 down (five upright bars)
SideTowers ==
    << Settled("LBlock", LFoot, 0, 17),
       Settled("LineBlock", VLine, 0, 13),
       Settled("LineBlock", VLine, 0, 9),
       Settled("LineBlock", VLine, 0, 5),
       Settled("LineBlock", VLine, 0, 1),
       Settled("LineBlock", VLine, 9, 16),
       Settled("LineBlock", VLine, 9, 12),
       Settled("LineBlock", VLine, 9, 8),
       Settled("LineBlock", VLine, 9, 4),
       Settled("LineBlock", VLine, 9, 0) >>

\* Brim: the side towers, column 8 filled from row 4 down, and a flat bar
\* slid along row 0 onto the top of column 0.  The sixteenth block, an
\* upright bar, has just spawned; above column 8 it comes to rest in rows
\* 0-3 and leaves row 0 open at columns 4-7 only.  No row has been completed.
BoardBrim ==
    SideTowers \o
    << Settled("LineBlock", VLine, 8, 16),
       Settled("LineBlock", VLine, 8, 12),
       Settled("LineBlock", VLine, 8, 8),
       Settled("LineBlock", VLine, 8, 4),
       Settled("LineBlock", HLine, 0, 0),
       Falling("LineBlock", VLine, 4, 0) >>

\* Pocket: the side towers, column 8 filled from row 2 down (a square under
\* four upright bars), the flat bar on the top of column 0, and a flat bar
\* moved one column right and one row down onto column 8 (columns 5-8 of
\* row 1), which leaves (5, 2) empty under it.  The eighteenth block, a flat
\* bar, has just spawned.  No row has been completed.
BoardPocket ==
    SideTowers \o
    << Settled("SquareBlock", Square, 7, 18),
       Settled("LineBlock", VLine, 8, 14),
       Settled("LineBlock", VLine, 8, 10),
       Settled("LineBlock", VLine, 8, 6),
       Settled("LineBlock", VLine, 8, 2),
       Settled("LineBlock", HLine, 0, 0),
       Settled("LineBlock", HLine, 5, 1),
       Falling("LineBlock", HLine, 4, 0) >>

\* rows completed so far: every block spawns 4 tiles and every cleared row
\* removes 10, so the parity of the count is that of half the tiles on the board
TotalLines(lv, lc) == (lv - 1) * LINES_PER_LEVEL + lc

InitCounters(lv, lc) ==
    /\ level = lv
    /\ lines_completed = lc
    /\ score = LineScore * TotalLines(lv, lc)
    /\ speed = LEVEL_SPEEDS[lv]
    /\ rows_cleared = TotalLines(lv, lc)

InitBoards ==
    \/ /\ blocks \in {BoardTower, BoardTwoRowsTucked, BoardTwoRowsStacked}
       /\ \E lc \in {0, 8} : InitCounters(1, lc)
    \/ /\ blocks = BoardRemnants
       /\ \E lv \in {1, Len(LEVEL_SPEEDS)} : \E lc \in {1, 9} : InitCounters(lv, lc)

\* the boards filled to the top, with the previews that still fit there
InitTopBoards ==
    /\ blocks \in {BoardBrim, BoardPocket}
    /\ InitCounters(1, 0)
    /\ next_block \in {NewBlock("LineBlock", HLine), NewBlock("LBlock", LFoot)}

Init ==
    /\ \/ /\ InitBoards
          /\ next_block \in {NewBlock("SquareBlock", Square),
                              NewBlock("LineBlock", HLine)}
       \/ InitTopBoards
    /\ InitControls

Spec == Init /\ [][Next]_vars

----------------------------------------------------------------------------
(* One block and the operations that change its matrix: rotation while it
   falls, and the row deletion of lines 339-351 when a clear takes one of
   its rows *)

\* a block of any kind and spawn orientation at any anchor inside the board,
\* at the top or resting on the floor
InitShapes ==
    /\ \E b \in AllNewBlocks :
         \E x \in 0..(GridCols - NCols(b.struct)) :
           \E y \in {SpawnY, GridRows - NRows(b.struct)} :
             blocks = <<[b EXCEPT !.x = x, !.y = y]>>
    /\ next_block = NewBlock("SquareBlock", Square)
    /\ score = 0
    /\ level = 1
    /\ lines_completed = 0
    /\ speed = LEVEL_SPEEDS[1]
    /\ rows_cleared = 0
    /\ InitControls

\* rotate_current_block on the block
RotateShape ==
    /\ Len(blocks) = 1
    /\ blocks' = rotate_current_block(Session).blocks
    /\ UNCHANGED <<next_block, score, level, lines_completed, speed, heading,
                   ignore_next_stop, game_over, paused, status, draws_left,
                   rows_cleared, pause_pressed>>

\* lines 339-351 for the block when a clear takes its local row y_offset
DeleteLocalRow(y_offset) ==
    /\ Len(blocks) = 1
    /\ y_offset \in 0..(NRows(blocks[1].struct) - 1)
    /\ blocks' = SelectSeq(<<StripRow(blocks[1], y_offset)>>,
                           LAMBDA b : b.kind # "removed")
    /\ UNCHANGED <<next_block, score, level, lines_completed, speed, heading,
                   ignore_next_stop, game_over, paused, status, draws_left,
                   rows_cleared, pause_pressed>>

NextShapes ==
    \/ RotateShape
    \/ \E y_offset \in 0..3 : DeleteLocalRow(y_offset)

SpecShapes == InitShapes /\ [][NextShapes]_vars

----------------------------------------------------------------------------
(* Properties *)

\* the block current_block returns
Active == blocks[Len(blocks)]

\* the tiles of b lie in columns 0..9 and rows 0..19
InsideBoard(b) ==
    \A t \in Cells(b) : t[1] \in 0..(GridCols - 1) /\ t[2] \in 0..(GridRows - 1)

\* the rows whose ten cells all hold a tile of a settled block
SettledCompleteRows ==
    {r \in 0..(GridRows - 1) : \A c \in 0..(GridCols - 1) :
        \E k \in 1..Len(blocks) : ~blocks[k].current /\ <<c, r>> \in Cells(blocks[k])}

\* the current block cannot move down: the next downward move settles it
Landed ==
    /\ Len(blocks) > 0
    /\ Active.current
    /\ move(blocks, Len(blocks), 0, 1).bottom

\* the session _create_new_block is called with once the current block has
\* settled (update_current_block, lines 431-434)
AtSpawn ==
    stop_moving_current_block(
        [Session EXCEPT !.blocks = move(blocks, Len(blocks), 0, 1).group])

\* the session _check_line_completion is called with (line 400)
AtClearance == update_grid(AddBlock(AtSpawn, next_block))

\* C1: once a piece has settled and the event is processed, no row of the
\* board is fully occupied by settled tiles, also when the following spawn
\* is blocked
C1_NoFullRowAfterSettle ==
    status = "running" => SettledCompleteRows = {}

\* C2: every cleared row adds exactly 5 to the score and exactly 1 to the
\* count of lines (level-ups unfolded), and the score changes in no other
\* way: the score is always 5 times the number of rows cleared so far
C2_ScorePerClearedRow ==
    /\ score = LineScore * rows_cleared
    /\ (level - 1) * LINES_PER_LEVEL + lines_completed = rows_cleared

C2_Witness ==
    /\ rows_cleared = 1
    /\ score = LineScore
    /\ lines_completed = 1
    /\ draws_left = 0

\* C3: the level rises by one exactly at every tenth cleared row and the
\* line counter restarts at 0 there; in between the counter stays in 0..9
C3_LevelEveryTenRows ==
    /\ lines_completed \in 0..(LINES_PER_LEVEL - 1)
    /\ level = 1 + (rows_cleared \div LINES_PER_LEVEL)
    /\ lines_completed = rows_cleared % LINES_PER_LEVEL

C3_Witness ==
    /\ level = 2
    /\ lines_completed = 0
    /\ rows_cleared = LINES_PER_LEVEL
    /\ speed = LEVEL_SPEEDS[2]

\* C4: when clearance runs on a board with exactly two complete rows, one
\* on top of the other, it clears both: score + 10, two rows counted
C4_TwoStackedRowsBothCleared ==
    (Landed /\ ~collide(next_block, blocks, 0)) =>
        \A r \in 1..(GridRows - 1) :
            CompleteRows(AtClearance.blocks) = {r - 1, r} =>
                /\ _check_line_completion(AtClearance).score
                       = score + 2 * LineScore
                /\ _check_line_completion(AtClearance).cleared
                       = rows_cleared + 2

\* C5: when rotate returns, the rotated piece lies inside columns 0..9 and
\* rows 0..19 and overlaps no other piece
C5_RotateLegal ==
    [][(KeyUpRotate /\ status' = "running" /\ Active.kind # "SquareBlock") =>
          /\ InsideBoard(blocks'[Len(blocks')])
          /\ ~collide(blocks'[Len(blocks')], blocks', Len(blocks'))]_vars

\* a bar turned flat at the right wall and nudged three columns to the left
C5_Witness ==
    /\ Len(blocks) = 7
    /\ Active.kind = "LineBlock"
    /\ Active.struct = HLine
    /\ Active.x = GridCols - 4
    /\ Active.y = 13
    /\ status = "running"

\* C6: the placement loop of rotate always ends
C6_RotateTerminates ==
    status # "hung"

\* C7: every piece of the piece set has a matrix with a row, a column and
\* a tile; a piece emptied by a clear is gone after that clear
C7_NoEmptyPiece ==
    \A k \in 1..Len(blocks) :
        /\ NRows(blocks[k].struct) >= 1
        /\ NCols(blocks[k].struct) >= 1
        /\ StructAny(blocks[k].struct)

\* a clear removed the two flat bars of the remnants board
C7_Witness ==
    /\ rows_cleared \in {2, 10, 42, 50}
    /\ Len(blocks) = 3
    /\ \A k \in 1..Len(blocks) : StructAny(blocks[k].struct)

\* the number of leading empty columns of matrix m
LeadingEmpty(m) ==
    Cardinality({c \in 0..(NCols(m) - 1) : \A d \in 0..c : ColEmpty(m, d)})

\* block b lost local row r and became a
Compacted(b, r, a) ==
    /\ \A c \in 0..(NCols(a.struct) - 1) : ~ColEmpty(a.struct, c)
    /\ a.x = b.x + LeadingEmpty(DeleteRow(b.struct, r))
    /\ Cells(a) = {<<t[1], IF t[2] > b.y + r THEN t[2] - 1 ELSE t[2]>> :
                      t \in {u \in Cells(b) : u[2] # b.y + r}}

\* C8: a row deletion that leaves tiles yields a matrix without an empty
\* column, moves the anchor x by the number of leading empty columns
\* removed, and keeps every remaining tile in its board column
C8_CompactionKeepsColumns ==
    [][\A r \in 0..3 :
          (DeleteLocalRow(r) /\ blocks' # <<>>) =>
              Compacted(blocks[1], r, blocks'[1])]_vars

\* a single tile left of a three-wide shape, two leading columns removed
C8_Witness ==
    /\ Len(blocks) = 1
    /\ blocks[1].kind # "LineBlock"
    /\ blocks[1].struct = << <<1>> >>
    /\ blocks[1].x = GridCols - 1

\* the lowest row holding a tile of b
LowestRow(b) == Max({t[2] : t \in Cells(b)})

\* C9: alone on the board, a piece is bottom-blocked exactly when its
\* lowest tile is in row 19; higher up the move succeeds and y grows by 1
C9_FloorBlocksDownMove ==
    (Len(blocks) = 1 /\ blocks[1].current) =>
        /\ move(blocks, 1, 0, 1).bottom <=> LowestRow(blocks[1]) = GridRows - 1
        /\ LowestRow(blocks[1]) < GridRows - 1 =>
               move(blocks, 1, 0, 1).group
                   = <<[blocks[1] EXCEPT !.y = blocks[1].y + 1]>>

\* the first piece settled with its lowest tile in row 19
C9_Witness ==
    /\ Len(blocks) = 2
    /\ ~blocks[1].current
    /\ LowestRow(blocks[1]) = GridRows - 1
    /\ blocks[2].current

\* C10: a spawn whose piece overlaps a piece of the board raises TopReached
\* and changes nothing: piece set, preview, score and level stay; every
\* spawn piece has a tile in row 0, so a full top blocks every one of them
C10_BlockedSpawnChangesNothing ==
    /\ \A b \in AllNewBlocks :
          \E t \in Cells(b) : t[2] = 0 /\ t[1] \in 0..(GridCols - 1)
    /\ Landed =>
          \A b \in AllNewBlocks :
              collide(b, AtSpawn.blocks, 0) =>
                  _create_new_block([AtSpawn EXCEPT !.next_block = b], next_block)
                      = [AtSpawn EXCEPT !.next_block = b, !.exc = "TopReached"]

\* the spawn was blocked: game over with the piece set of the tower board
C10_Witness ==
    /\ game_over
    /\ status = "running"
    /\ Len(blocks) = 8
    /\ \A k \in 1..Len(blocks) : ~blocks[k].current
    /\ draws_left = MaxDraws

\* the steps move_left, move_right and move_down ask for
Steps == {<<-1, 0>>, <<1, 0>>, <<0, 1>>}

\* block k moved by d leaves the board (sides or floor) or lands on a tile
\* of another block
StepBlocked(k, d) ==
    LET to == {<<t[1] + d[1], t[2] + d[2]>> : t \in Cells(blocks[k])}
    IN  \/ \E t \in to : t[1] < 0 \/ t[1] >= GridCols \/ t[2] >= GridRows
        \/ \E j \in 1..Len(blocks) : j # k /\ to \cap Cells(blocks[j]) # {}

\* what move makes of block k for step d
StepOutcome(k, d, m) ==
    /\ \A j \in 1..Len(blocks) : j # k => m.group[j] = blocks[j]
    /\ IF StepBlocked(k, d)
       THEN /\ m.group[k] = [blocks[k] EXCEPT
                                !.current = IF d[2] > 0 THEN FALSE ELSE @]
            /\ m.bottom = (d[2] > 0)
       ELSE /\ m.group[k] = [blocks[k] EXCEPT !.x = @ + d[1], !.y = @ + d[2]]
            /\ ~m.bottom

\* C11: a blocked move restores the anchor and leaves the matrix alone, and
\* ends the piece's active life only when it was a downward move; a move
\* that is not blocked changes the anchor by exactly (dx, dy)
C11_MoveAtomic ==
    \A k \in 1..Len(blocks) : \A d \in Steps :
        StepOutcome(k, d, move(blocks, k, d[1], d[2]))

\* a bar of the two-rows boards came to rest away from column 9 and the
\* next piece has spawned
C11_Witness ==
    /\ draws_left = 0
    /\ Len(blocks) = 8
    /\ blocks[7].kind = "LineBlock"
    /\ ~blocks[7].current
    /\ blocks[8].current

\* C12: a spawn collision never ends in an uncaught exception, and once the
\* game is over no event changes the piece set, the score or the level or
\* raises an uncaught exception
C12_GameOverTerminal ==
    [][/\ (Landed /\ collide(next_block, blocks, 0)) => status' # "crashed"
       /\ game_over => /\ status' # "crashed"
                       /\ blocks' = blocks
                       /\ score' = score
                       /\ level' = level]_vars

\* the entry of LEVEL_SPEEDS for level lv, the last one past the table
SpeedOf(lv) ==
    LEVEL_SPEEDS[IF lv > Len(LEVEL_SPEEDS) THEN Len(LEVEL_SPEEDS) ELSE lv]

\* C13: the speed is the table entry of the current level, the last entry
\* once the level has passed the table, and passing the table raises no
\* uncaught exception
C13_SpeedTableExhaustion ==
    /\ speed = SpeedOf(level)
    /\ level > Len(LEVEL_SPEEDS) => status # "crashed"

\* C14: while the game is not over exactly one piece of the piece set is
\* active, and it is the last piece of the collection, the one that move
\* and rotate events act on
C14_OneActivePiece ==
    (status = "running" /\ ~game_over) =>
        /\ Cardinality({k \in 1..Len(blocks) : blocks[k].current}) = 1
        /\ Active.current

\* no settled piece of the group can move one more cell down
AllDropped(group) ==
    \A k \in 1..Len(group) :
        group[k].current \/ move(group, k, 0, 1).bottom

\* the clearance that follows the spawn found a row and returned with rows
\* cleared and every settled piece dropped as far as it can fall
DroppedAfter(pre, post) ==
    (post.exc = "none" /\ post.cleared > pre.cleared) => AllDropped(post.blocks)

\* C15: when line clearance returns, no settled piece can fall further
C15_GravityPassComplete ==
    (Landed /\ ~collide(next_block, blocks, 0)) =>
        DroppedAfter(AtClearance, _check_line_completion(AtClearance))

\* C16: one gravity tick attempts one downward step: the active piece's
\* anchor y grows by at most 1, and at most one piece settles
C16_OneStepPerGravityTick ==
    [][GravityTick =>
          /\ (Len(blocks') = Len(blocks) /\ blocks'[Len(blocks')].current) =>
                 blocks'[Len(blocks')].y <= Active.y + 1
          /\ Len(blocks') <= Len(blocks) + 1]_vars

\* the session after KEYDOWN of b and then KEYUP of b, direction a held
PressRelease(b) ==
    stop_moving_current_block(start_moving_current_block(Session, b))

\* C17: with direction A held, pressing a second direction B sets the
\* ignore-next-release flag, and releasing B clears the flag and leaves A
\* the held direction
C17_ReleaseKeepsHeldDirection ==
    (heading # NoHeading /\ ~game_over /\ ~paused) =>
        \A b \in MOVEMENT_KEYS \ {heading} :
            /\ start_moving_current_block(Session, b).ignore_next_stop
            /\ ~PressRelease(b).ignore_next_stop
            /\ PressRelease(b).heading = heading

\* the clearance that follows the spawn left the spawned piece, the last of
\* the group, with its matrix and anchor
SpawnedKept(pre, post) ==
    post.exc = "none" =>
        /\ Len(post.blocks) > 0
        /\ post.blocks[Len(post.blocks)] = pre.blocks[Len(pre.blocks)]

\* C18: the clearance run right after a spawn deletes no row of the newly
\* spawned piece and leaves its anchor where it is
C18_ClearanceKeepsSpawnedPiece ==
    (Landed /\ ~collide(next_block, blocks, 0)) =>
        SpawnedKept(AtClearance, _check_line_completion(AtClearance))

\* C19: once the pause key has switched pause on, no event changes the
\* piece set, the score or the level until the key switches it off again
C19_PauseSuspends ==
    [][pause_pressed =>
          (blocks' = blocks /\ score' = score /\ level' = level)]_vars

\* the tiles of blocks j and k share no cell
Disjoint(j, k) == Cells(blocks[j]) \cap Cells(blocks[k]) = {}

\* C20: between events the pieces of the piece set are pairwise disjoint
\* and every tile lies inside columns 0..9 and rows 0..19
C20_BoardConsistent ==
    status = "running" =>
        /\ \A k \in 1..Len(blocks) : InsideBoard(blocks[k])
        /\ \A j \in 1..Len(blocks) : \A k \in (j + 1)..Len(blocks) : Disjoint(j, k)

\* the number of board cells that hold a tile
OccupiedCount(group) == Cardinality(Occupied(group))

\* C21: an event changes the number of occupied board cells by 4 for every
\* piece it spawns and by -10 for every row it clears, and by nothing else
C21_CellConservation ==
    [][status' = "running" =>
          OccupiedCount(blocks') - OccupiedCount(blocks)
              = 4 * (draws_left - draws_left')
                - GridCols * (rows_cleared' - rows_cleared)]_vars

====
